---- MODULE Spec2Model ----
(***************************************************************************)
(* Holidays of Germany and its regions: the holiday catalog                *)
(* (src/src/holidays.rs), the region table and the query functions         *)
(* (src/src/regions.rs), and the calendar arithmetic both rest on.         *)
(*                                                                         *)
(* A NaiveDate is modelled by its day number in the proleptic Gregorian    *)
(* calendar (day 1 is 0001-01-01, a Monday), so that adding a Duration is  *)
(* integer addition and the order of dates is the order of integers.       *)
(* An Option<T> is modelled by a sequence: <<>> is None, <<v>> is Some(v). *)
(***************************************************************************)
EXTENDS Integers, Sequences, FiniteSets

\* ---------------------------------------------------------------- bounds

\* Years the region queries are explored for.
MinYear == 1993
MaxYear == 2023

\* Years the catalog (GermanHoliday::date, bus_und_bettag) is explored for.
CalMinYear == 1
CalMaxYear == 2999

\* ------------------------------------------------------- program constants

\* regions.rs:47  `if year < 1995`
FirstYear == 1995
\* regions.rs:53  `if year == 2017 && ...`
ReformationYear == 2017
\* computus::gregorian rejects years before the Gregorian reform (holidays.rs:120)
GregorianStart == 1583

None == <<>>
Some(v) == <<v>>

\* ------------------------------------------------ chrono::NaiveDate (model)

IsLeapYear(y) == (y % 4 = 0 /\ y % 100 # 0) \/ y % 400 = 0

DaysInMonth(y, m) ==
    CASE m \in {1, 3, 5, 7, 8, 10, 12} -> 31
      [] m \in {4, 6, 9, 11} -> 30
      [] OTHER -> IF IsLeapYear(y) THEN 29 ELSE 28

\* Days of the calendar before January 1 of year y (y >= 1).
DaysBeforeYear(y) ==
    365 * (y - 1) + ((y - 1) \div 4) - ((y - 1) \div 100) + ((y - 1) \div 400)

\* Days of year y before the first day of month m.
DaysBeforeMonth(y, m) ==
    << 0, 31, 59, 90, 120, 151, 181, 212, 243, 273, 304, 334 >>[m]
    + (IF m > 2 /\ IsLeapYear(y) THEN 1 ELSE 0)

\* NaiveDate::from_ymd_opt: None unless (year, month, day) is a calendar date.
\* Day numbers are defined here for the years from 1 on; chrono's own range of
\* years is far wider than the years explored.
from_ymd_opt(y, m, d) ==
    IF y >= 1 /\ m \in 1..12 /\ d >= 1 /\ d <= DaysInMonth(y, m)
    THEN Some(DaysBeforeYear(y) + DaysBeforeMonth(y, m) + d)
    ELSE None

Min(a, b) == IF a < b THEN a ELSE b

\* Datelike::year of a day number.
year_of(n) ==
    LET n0   == n - 1
        q400 == n0 \div 146097
        r400 == n0 % 146097
        c    == Min(r400 \div 36524, 3)
        r100 == r400 - c * 36524
        q4   == r100 \div 1461
        r4   == r100 % 1461
        y1   == Min(r4 \div 365, 3)
    IN  400 * q400 + 100 * c + 4 * q4 + y1 + 1

\* Datelike::weekday().num_days_from_monday(): Monday = 0 ... Sunday = 6.
num_days_from_monday(n) == (n - 1) % 7

\* ------------------------------------------------------ computus::gregorian

\* Easter Sunday of a Gregorian year as [year, month, day]; Err (None here)
\* for years before the Gregorian calendar.
gregorian(year) ==
    IF year < GregorianStart THEN None
    ELSE
    LET aa == year % 19
        bb == year \div 100
        cc == year % 100
        dd == bb \div 4
        ee == bb % 4
        ff == (bb + 8) \div 25
        gg == (bb - ff + 1) \div 3
        hh == (19 * aa + bb - dd - gg + 15) % 30
        ii == cc \div 4
        kk == cc % 4
        ll == (32 + 2 * ee + 2 * ii - hh - kk) % 7
        mm == (aa + 11 * hh + 22 * ll) \div 451
    IN  Some([year  |-> year,
              month |-> (hh + ll - 7 * mm + 114) \div 31,
              day   |-> ((hh + ll - 7 * mm + 114) % 31) + 1])

\* ------------------------------------------------------------- holidays.rs

GermanHoliday ==
    << "Neujahr", "HeiligeDreiKoenige", "Frauentag", "Faschingsdienstag",
       "Aschermittwoch", "Gruendonnerstag", "Karfreitag", "Ostersonntag",
       "Ostermontag", "ErsterMai", "ChristiHimmelfahrt", "Pfingstsonntag",
       "Pfingstmontag", "Fronleichnam", "AugsburgerFriedensfest",
       "MariaeHimmelfahrt", "Weltkindertag", "TagDerDeutschenEinheit",
       "Reformationstag", "Allerheiligen", "BussUndBettag", "Heiligabend",
       "ErsterWeihnachtsfeiertag", "ZweiterWeihnachtsfeiertag", "Silvester" >>

Kinds == {GermanHoliday[i] : i \in 1..Len(GermanHoliday)}

\* Mutant of date: month and day handed over in the wrong order.
date_swapped(year, month, day) == from_ymd_opt(year, day, month)

\* fn date(year, month, day)
date(year, month, day) == from_ymd_opt(year, month, day)

\* Mutant of relative_to_easter_sunday: Easter's month and day handed over in
\* the wrong order.
relative_to_easter_sunday_swapped(year, days_offset) ==
    LET easter_sunday == gregorian(year)
    IN  IF easter_sunday = None THEN None
        ELSE LET d == from_ymd_opt(easter_sunday[1].year, easter_sunday[1].day,
                                   easter_sunday[1].month)
             IN  IF d = None THEN None ELSE Some(d[1] + days_offset)

\* fn relative_to_easter_sunday(year, days_offset)
relative_to_easter_sunday(year, days_offset) ==
    LET easter_sunday == gregorian(year)
    IN  IF easter_sunday = None THEN None
        ELSE LET d == from_ymd_opt(easter_sunday[1].year, easter_sunday[1].month,
                                   easter_sunday[1].day)
             IN  IF d = None THEN None ELSE Some(d[1] + days_offset)

\* Mutant of bus_und_bettag: `weekday_ordinal < 2` for `weekday_ordinal < 3`.
bus_und_bettag_lt2(year) ==
    LET reference_date == from_ymd_opt(year, 11, 23)
    IN  IF reference_date = None THEN None
        ELSE LET weekday_ordinal == num_days_from_monday(reference_date[1])
                 duration_to_previous_wednesday ==
                     IF weekday_ordinal < 2
                     THEN -(weekday_ordinal + 5)
                     ELSE 2 - weekday_ordinal
             IN  Some(reference_date[1] + duration_to_previous_wednesday)

\* fn bus_und_bettag(year)
bus_und_bettag(year) ==
    LET reference_date == from_ymd_opt(year, 11, 23)
    IN  IF reference_date = None THEN None
        ELSE LET weekday_ordinal == num_days_from_monday(reference_date[1])
                 duration_to_previous_wednesday ==
                     IF weekday_ordinal < 3
                     THEN -(weekday_ordinal + 5)
                     ELSE 2 - weekday_ordinal
             IN  Some(reference_date[1] + duration_to_previous_wednesday)

\* GermanHoliday::date(&self, year)
holiday_date(holiday, year) ==
    CASE holiday = "Neujahr" -> date(year, 1, 1)
      [] holiday = "HeiligeDreiKoenige" -> date(year, 1, 6)
      [] holiday = "Frauentag" -> date(year, 3, 8)
      [] holiday = "Faschingsdienstag" -> relative_to_easter_sunday(year, -47)
      [] holiday = "Aschermittwoch" -> relative_to_easter_sunday(year, -46)
      [] holiday = "Gruendonnerstag" -> relative_to_easter_sunday(year, -3)
      [] holiday = "Karfreitag" -> relative_to_easter_sunday(year, -2)
      [] holiday = "Ostersonntag" -> relative_to_easter_sunday(year, 0)
      [] holiday = "Ostermontag" -> relative_to_easter_sunday(year, 1)
      [] holiday = "ErsterMai" -> date(year, 5, 1)
      [] holiday = "ChristiHimmelfahrt" -> relative_to_easter_sunday(year, 39)
      [] holiday = "Pfingstsonntag" -> relative_to_easter_sunday(year, 49)
      [] holiday = "Pfingstmontag" -> relative_to_easter_sunday(year, 50)
      [] holiday = "Fronleichnam" -> relative_to_easter_sunday(year, 60)
      [] holiday = "AugsburgerFriedensfest" -> date(year, 8, 8)
      [] holiday = "MariaeHimmelfahrt" -> date(year, 8, 15)
      [] holiday = "Weltkindertag" -> date(year, 9, 20)
      [] holiday = "TagDerDeutschenEinheit" -> date(year, 10, 3)
      [] holiday = "Reformationstag" -> date(year, 10, 31)
      [] holiday = "Allerheiligen" -> date(year, 11, 1)
      [] holiday = "BussUndBettag" -> bus_und_bettag(year)
      [] holiday = "Heiligabend" -> date(year, 12, 24)
      [] holiday = "ErsterWeihnachtsfeiertag" -> date(year, 12, 25)
      [] holiday = "ZweiterWeihnachtsfeiertag" -> date(year, 12, 26)
      [] holiday = "Silvester" -> date(year, 12, 31)

\* -------------------------------------------------------------- regions.rs

GermanRegion ==
    { "BadenWuerttemberg", "BayernEv", "BayernKath", "Augsburg", "Berlin",
      "Brandenburg", "Bremen", "Hamburg", "Hessen", "MecklenburgVorpommern",
      "Niedersachsen", "NordrheinWestfalen", "RheinlandPfalz", "Saarland",
      "SachsenOhneFronleichnam", "SachsenMitFronleichnam", "SachsenAnhalt",
      "SchleswigHolstein", "ThueringenOhneFronleichnam",
      "ThueringenMitFronleichnam" }

\* Mutant of BUNDESWEITE_FEIERTAGE: Ostersonntag listed for Ostermontag.
BUNDESWEITE_FEIERTAGE_ostersonntag ==
    << "Neujahr", "Karfreitag", "Ostersonntag", "ErsterMai",
       "ChristiHimmelfahrt", "Pfingstmontag", "TagDerDeutschenEinheit",
       "ErsterWeihnachtsfeiertag", "ZweiterWeihnachtsfeiertag" >>

BUNDESWEITE_FEIERTAGE ==
    << "Neujahr", "Karfreitag", "Ostermontag", "ErsterMai",
       "ChristiHimmelfahrt", "Pfingstmontag", "TagDerDeutschenEinheit",
       "ErsterWeihnachtsfeiertag", "ZweiterWeihnachtsfeiertag" >>

\* GermanRegion::region_specific_holidays(&self, year)
region_specific_holidays(self, year) ==
    CASE self = "BadenWuerttemberg" ->
            << "HeiligeDreiKoenige", "Fronleichnam", "Allerheiligen" >>
      [] self = "BayernEv" ->
            << "HeiligeDreiKoenige", "Fronleichnam", "Allerheiligen" >>
      [] self = "BayernKath" ->
            << "HeiligeDreiKoenige", "Fronleichnam", "MariaeHimmelfahrt",
               "Allerheiligen" >>
      [] self = "Augsburg" ->
            << "HeiligeDreiKoenige", "Fronleichnam", "AugsburgerFriedensfest",
               "MariaeHimmelfahrt", "Allerheiligen" >>
      [] self = "Berlin" ->
            IF year >= 2019 THEN << "Frauentag" >> ELSE << >>
      [] self = "Brandenburg" -> << "Reformationstag" >>
      [] self = "Bremen" ->
            IF year >= 2017 THEN << "Reformationstag" >> ELSE << >>
      [] self = "Hamburg" ->
            IF year >= 2017 THEN << "Reformationstag" >> ELSE << >>
      [] self = "Hessen" -> << "Fronleichnam" >>
      [] self = "MecklenburgVorpommern" ->
            IF year >= 2023 THEN << "Frauentag", "Reformationstag" >>
            ELSE << "Reformationstag" >>
      [] self = "Niedersachsen" ->
            IF year >= 2017 THEN << "Reformationstag" >> ELSE << >>
      [] self = "NordrheinWestfalen" -> << "Fronleichnam", "Allerheiligen" >>
      [] self = "RheinlandPfalz" -> << "Fronleichnam", "Allerheiligen" >>
      [] self = "Saarland" ->
            << "Fronleichnam", "MariaeHimmelfahrt", "Allerheiligen" >>
      [] self = "SachsenOhneFronleichnam" ->
            << "Reformationstag", "BussUndBettag" >>
      [] self = "SachsenMitFronleichnam" ->
            << "Fronleichnam", "Reformationstag", "BussUndBettag" >>
      [] self = "SachsenAnhalt" -> << "HeiligeDreiKoenige", "Reformationstag" >>
      [] self = "SchleswigHolstein" ->
            IF year >= 2017 THEN << "Reformationstag" >> ELSE << >>
      [] self = "ThueringenOhneFronleichnam" ->
            IF year >= 2019 THEN << "Weltkindertag", "Reformationstag" >>
            ELSE << "Reformationstag" >>
      [] self = "ThueringenMitFronleichnam" ->
            IF year >= 2019 THEN << "Fronleichnam", "Reformationstag" >>
            ELSE << "Fronleichnam", "Weltkindertag", "Reformationstag" >>

\* Vec::contains
Contains(s, x) == \E i \in 1..Len(s) : s[i] = x

\* Mutant of holidays_in_year: `year < 1994` for `year < 1995`.
holidays_in_year_from_1994(self, year) ==
    IF year < FirstYear - 1 THEN << >>
    ELSE LET holidays == BUNDESWEITE_FEIERTAGE \o region_specific_holidays(self, year)
         IN  IF year = ReformationYear /\ ~Contains(holidays, "Reformationstag")
             THEN Append(holidays, "Reformationstag")
             ELSE holidays

\* Mutant of holidays_in_year: `year <= 1995` for `year < 1995`.
holidays_in_year_after_1995(self, year) ==
    IF year <= FirstYear THEN << >>
    ELSE LET holidays == BUNDESWEITE_FEIERTAGE \o region_specific_holidays(self, year)
         IN  IF year = ReformationYear /\ ~Contains(holidays, "Reformationstag")
             THEN Append(holidays, "Reformationstag")
             ELSE holidays

\* Mutant of holidays_in_year: the 2017 Reformationstag is not added.
holidays_in_year_no_extra(self, year) ==
    IF year < FirstYear THEN << >>
    ELSE BUNDESWEITE_FEIERTAGE \o region_specific_holidays(self, year)

\* Mutant of holidays_in_year: the 2017 Reformationstag is added without
\* looking whether the list has it.
holidays_in_year_push_always(self, year) ==
    IF year < FirstYear THEN << >>
    ELSE LET holidays == BUNDESWEITE_FEIERTAGE \o region_specific_holidays(self, year)
         IN  IF year = ReformationYear
             THEN Append(holidays, "Reformationstag")
             ELSE holidays

\* GermanRegion::holidays_in_year(&self, year)
holidays_in_year(self, year) ==
    IF year < FirstYear THEN << >>
    ELSE LET holidays == BUNDESWEITE_FEIERTAGE \o region_specific_holidays(self, year)
         IN  IF year = ReformationYear /\ ~Contains(holidays, "Reformationstag")
             THEN Append(holidays, "Reformationstag")
             ELSE holidays

\* .flat_map(|holiday| holiday.date(year).map(|date| (date, holiday))).collect()
RECURSIVE flat_map_dates(_, _)
flat_map_dates(hs, year) ==
    IF hs = << >> THEN << >>
    ELSE LET d == holiday_date(Head(hs), year)
         IN  (IF d = None THEN << >> ELSE << << d[1], Head(hs) >> >>)
             \o flat_map_dates(Tail(hs), year)

\* Inserts entry e into the sequence s, which is ordered by date. Among entries
\* of e's date, e goes first when `before` and last otherwise.
RECURSIVE insert_by_key(_, _, _)
insert_by_key(s, e, before) ==
    IF s = << >> THEN << e >>
    ELSE IF e[1] < Head(s)[1] \/ (before /\ e[1] = Head(s)[1])
         THEN << e >> \o s
         ELSE << Head(s) >> \o insert_by_key(Tail(s), e, before)

\* slice::sort_unstable_by_key(|(date, _)| *date): the result is ordered by
\* date; the order of entries of equal date is not specified, so it is an
\* input (`before`) of the model.
RECURSIVE sort_unstable_by_key(_, _)
sort_unstable_by_key(s, before) ==
    IF s = << >> THEN << >>
    ELSE insert_by_key(sort_unstable_by_key(Tail(s), before), Head(s), before)

\* Mutant of holiday_dates_in_year: the list is returned as collected, unsorted.
holiday_dates_in_year_unsorted(self, year, before) ==
    flat_map_dates(holidays_in_year(self, year), year)

\* GermanRegion::holiday_dates_in_year(&self, year)
holiday_dates_in_year(self, year, before) ==
    sort_unstable_by_key(flat_map_dates(holidays_in_year(self, year), year), before)

\* Iterator::find(|holiday| holiday.date(year) == Some(date))
RECURSIVE find_holiday(_, _, _)
find_holiday(hs, year, d) ==
    IF hs = << >> THEN None
    ELSE IF holiday_date(Head(hs), year) = Some(d) THEN Some(Head(hs))
         ELSE find_holiday(Tail(hs), year, d)

\* Mutant of holiday_from_date: only the nationwide holidays are searched.
holiday_from_date_nationwide(self, d) ==
    find_holiday(BUNDESWEITE_FEIERTAGE, year_of(d), d)

\* Mutant of holiday_from_date: the list is searched from its end, so the last
\* kind whose date matches is returned.
RECURSIVE reversed(_)
reversed(s) == IF s = << >> THEN << >> ELSE Append(reversed(Tail(s)), Head(s))

holiday_from_date_last(self, d) ==
    find_holiday(reversed(holidays_in_year(self, year_of(d))), year_of(d), d)

\* GermanRegion::holiday_from_date(&self, date)
holiday_from_date(self, d) ==
    find_holiday(holidays_in_year(self, year_of(d)), year_of(d), d)

\* GermanRegion::is_holiday(&self, date)
is_holiday(self, d) == holiday_from_date(self, d) # None

\* ------------------------------------------------------------ state machine

VARIABLES
    pc,             \* the call made last: "start" before any call
    year,           \* the year the calls are about
    region,         \* the GermanRegion of the last region call
    kind,           \* the GermanHoliday of the last GermanHoliday::date call
    query,          \* Some(date) queried by holiday_from_date / is_holiday
    holidays,       \* the Vec returned by holidays_in_year
    holiday_dates,  \* the Vec returned by holiday_dates_in_year
    found,          \* the Option returned by holiday_from_date
    is_hol,         \* the bool returned by is_holiday
    result          \* the Option returned by GermanHoliday::date / bus_und_bettag

vars == << pc, year, region, kind, query, holidays, holiday_dates, found,
           is_hol, result >>

NoRegion == "none"
NoKind == "none"

Start(years) ==
    /\ pc = "start"
    /\ year \in years
    /\ region = NoRegion
    /\ kind = NoKind
    /\ query = None
    /\ holidays = << >>
    /\ holiday_dates = << >>
    /\ found = None
    /\ is_hol = FALSE
    /\ result = None

Init == Start(MinYear..MaxYear)

InitCalendar == Start(CalMinYear..CalMaxYear)

\* region.holidays_in_year(year)
HolidaysInYear ==
    /\ pc = "start"
    /\ \E r \in GermanRegion :
          /\ region' = r
          /\ holidays' = holidays_in_year(r, year)
    /\ pc' = "holidays_in_year"
    /\ UNCHANGED << year, kind, query, holiday_dates, found, is_hol, result >>

\* region.holiday_dates_in_year(year)
HolidayDatesInYear ==
    /\ pc = "start"
    /\ \E r \in GermanRegion, before \in BOOLEAN :
          /\ region' = r
          /\ holiday_dates' = holiday_dates_in_year(r, year, before)
    /\ pc' = "holiday_dates_in_year"
    /\ UNCHANGED << year, kind, query, holidays, found, is_hol, result >>

\* region.holiday_from_date(date), for any date of the year
HolidayFromDate ==
    /\ pc = "start"
    /\ \E m \in 1..12, d \in 1..31 :
          LET q == from_ymd_opt(year, m, d)
          IN  /\ q # None
              /\ query' = q
              /\ \E r \in GermanRegion :
                    /\ region' = r
                    /\ found' = holiday_from_date(r, q[1])
    /\ pc' = "holiday_from_date"
    /\ UNCHANGED << year, kind, holidays, holiday_dates, is_hol, result >>

\* region.holiday_from_date(date), for the date of an entry that
\* region.holiday_dates_in_year(year) has returned
HolidayFromDateOfEntry ==
    /\ pc = "holiday_dates_in_year"
    /\ \E i \in 1..Len(holiday_dates) :
          /\ query' = Some(holiday_dates[i][1])
          /\ found' = holiday_from_date(region, holiday_dates[i][1])
    /\ pc' = "holiday_from_date"
    /\ UNCHANGED << year, region, kind, holidays, holiday_dates, is_hol, result >>

\* region.is_holiday(date), for the region and date just looked up
IsHoliday ==
    /\ pc = "holiday_from_date"
    /\ is_hol' = is_holiday(region, query[1])
    /\ pc' = "is_holiday"
    /\ UNCHANGED << year, region, kind, query, holidays, holiday_dates, found,
                    result >>

\* holiday.date(year)
Date ==
    /\ pc = "start"
    /\ \E k \in Kinds :
          /\ kind' = k
          /\ result' = holiday_date(k, year)
    /\ pc' = "date"
    /\ UNCHANGED << year, region, query, holidays, holiday_dates, found, is_hol >>

\* bus_und_bettag(year)
BusUndBettag ==
    /\ pc = "start"
    /\ result' = bus_und_bettag(year)
    /\ pc' = "bus_und_bettag"
    /\ UNCHANGED << year, region, kind, query, holidays, holiday_dates, found,
                    is_hol >>

Next ==
    \/ HolidaysInYear
    \/ HolidayDatesInYear
    \/ HolidayFromDate
    \/ HolidayFromDateOfEntry
    \/ IsHoliday
    \/ Date
    \/ BusUndBettag

Spec == Init /\ [][Next]_vars

NextCalendar ==
    \/ HolidaysInYear
    \/ HolidayDatesInYear
    \/ Date
    \/ BusUndBettag

SpecCalendar == InitCalendar /\ [][NextCalendar]_vars

\* ----------------------------------------------------------------- claims

Range(s) == {s[i] : i \in 1..Len(s)}

\* A date has been looked up by holiday_from_date.
Looked == pc \in {"holiday_from_date", "is_holiday"}

C3_BusUndBettagIsWednesdayBefore23Nov ==
    pc = "bus_und_bettag" \/ (pc = "date" /\ kind = "BussUndBettag") =>
        /\ result # None
        /\ num_days_from_monday(result[1]) = 2
        /\ from_ymd_opt(year, 11, 23)[1] - result[1] \in 1..7
        /\ year_of(result[1]) = year
        /\ year = 2018 => result = from_ymd_opt(2018, 11, 21)
        /\ year = 2019 => result = from_ymd_opt(2019, 11, 20)
        /\ year = 2020 => result = from_ymd_opt(2020, 11, 18)
        /\ year = 2021 => result = from_ymd_opt(2021, 11, 17)
        /\ year = 2022 => result = from_ymd_opt(2022, 11, 16)
        /\ year = 2023 => result = from_ymd_opt(2023, 11, 22)

\* C3 witness: bus_und_bettag(2022), where November 23 is itself a Wednesday
\* and the result is the Wednesday a full week before.
C3_Witness ==
    /\ pc = "bus_und_bettag"
    /\ year = 2022
    /\ num_days_from_monday(from_ymd_opt(2022, 11, 23)[1]) = 2
    /\ result = from_ymd_opt(2022, 11, 16)

\* C4: before 1995 there are no holidays: for y < 1995 holidays_in_year(r, y)
\* and holiday_dates_in_year(r, y) are empty, and for a date d of a year
\* before 1995 is_holiday(r, d) is false and holiday_from_date(r, d) is None.
C4_NothingBefore1995 ==
    /\ pc = "holidays_in_year" /\ year < FirstYear => holidays = << >>
    /\ pc = "holiday_dates_in_year" /\ year < FirstYear => holiday_dates = << >>
    /\ Looked /\ year_of(query[1]) < FirstYear => found = None
    /\ pc = "is_holiday" /\ year_of(query[1]) < FirstYear => ~is_hol

\* C4 witness: Christmas Day of 1994 was looked up in a region.
C4_Witness ==
    /\ pc = "is_holiday"
    /\ region \in GermanRegion
    /\ query = from_ymd_opt(1994, 12, 25)
    /\ found = None
    /\ ~is_hol

\* C5: holidays_in_year(r, 2017) contains Reformationstag exactly once, for
\* every region r.
C5_Reformationstag2017 ==
    pc = "holidays_in_year" /\ year = ReformationYear =>
        Cardinality({i \in 1..Len(holidays) : holidays[i] = "Reformationstag"}) = 1

\* C5 witness: the 2017 list of a region whose own rule has no Reformationstag.
C5_Witness ==
    /\ pc = "holidays_in_year"
    /\ year = 2017
    /\ region = "BayernKath"
    /\ ~Contains(region_specific_holidays("BayernKath", 2017), "Reformationstag")
    /\ holidays[Len(holidays)] = "Reformationstag"

\* The nine nationwide holidays (spec 4.3, nationwide_holidays).
Nationwide ==
    { "Neujahr", "Karfreitag", "Ostermontag", "ErsterMai", "ChristiHimmelfahrt",
      "Pfingstmontag", "TagDerDeutschenEinheit", "ErsterWeihnachtsfeiertag",
      "ZweiterWeihnachtsfeiertag" }

\* The region-specific holidays as the specification's table lists them
\* (spec 4.3, region_specific_holidays).
Table(r, y) ==
    CASE r \in {"BadenWuerttemberg", "BayernEv"} ->
            {"HeiligeDreiKoenige", "Fronleichnam", "Allerheiligen"}
      [] r = "BayernKath" ->
            {"HeiligeDreiKoenige", "Fronleichnam", "MariaeHimmelfahrt",
             "Allerheiligen"}
      [] r = "Augsburg" ->
            {"HeiligeDreiKoenige", "Fronleichnam", "AugsburgerFriedensfest",
             "MariaeHimmelfahrt", "Allerheiligen"}
      [] r = "Berlin" -> IF y < 2019 THEN {} ELSE {"Frauentag"}
      [] r = "Brandenburg" -> {"Reformationstag"}
      [] r \in {"Bremen", "Hamburg", "Niedersachsen", "SchleswigHolstein"} ->
            IF y < 2017 THEN {} ELSE {"Reformationstag"}
      [] r = "Hessen" -> {"Fronleichnam"}
      [] r = "MecklenburgVorpommern" ->
            {"Reformationstag"} \cup (IF y < 2023 THEN {} ELSE {"Frauentag"})
      [] r \in {"NordrheinWestfalen", "RheinlandPfalz"} ->
            {"Fronleichnam", "Allerheiligen"}
      [] r = "Saarland" -> {"Fronleichnam", "MariaeHimmelfahrt", "Allerheiligen"}
      [] r = "SachsenOhneFronleichnam" -> {"Reformationstag", "BussUndBettag"}
      [] r = "SachsenMitFronleichnam" ->
            {"Fronleichnam", "Reformationstag", "BussUndBettag"}
      [] r = "SachsenAnhalt" -> {"HeiligeDreiKoenige", "Reformationstag"}
      [] r = "ThueringenOhneFronleichnam" ->
            IF y < 2019 THEN {"Reformationstag"}
            ELSE {"Weltkindertag", "Reformationstag"}
      [] r = "ThueringenMitFronleichnam" ->
            IF y < 2019 THEN {"Fronleichnam", "Weltkindertag", "Reformationstag"}
            ELSE {"Fronleichnam", "Reformationstag"}

Expected(r, y) ==
    Nationwide \cup Table(r, y)
        \cup (IF y = 2017 THEN {"Reformationstag"} ELSE {})

\* C6: for y >= 1995 the kinds of holidays_in_year(r, y) are exactly the nine
\* nationwide holidays, the region-specific holidays of the specification's
\* table for (r, y), and Reformationstag when y = 2017.
C6_KindsAreNationwidePlusTable ==
    pc = "holidays_in_year" /\ year >= FirstYear =>
        Range(holidays) = Expected(region, year)

\* C6 witness: the list of ThueringenMitFronleichnam from 2019 on, which has
\* dropped Weltkindertag.
C6_Witness ==
    /\ pc = "holidays_in_year"
    /\ region = "ThueringenMitFronleichnam"
    /\ year = 2019
    /\ "Weltkindertag" \notin Range(holidays)
    /\ "Fronleichnam" \in Range(holidays)

\* C7: for y >= 1995 holidays_in_year(r, y) lists no kind twice; its length is
\* 9 plus the number of region-specific kinds of (r, y), plus 1 in 2017 when
\* Reformationstag is not region-specific; in 2019 it is 12 for
\* BadenWuerttemberg, 13 for BayernKath and 10 for Berlin.
C7_NoKindTwice ==
    pc = "holidays_in_year" /\ year >= FirstYear =>
        /\ \A i, j \in 1..Len(holidays) : holidays[i] = holidays[j] => i = j
        /\ Len(holidays) =
              9 + Cardinality(Table(region, year))
                + (IF year = 2017 /\ "Reformationstag" \notin Table(region, year)
                   THEN 1 ELSE 0)
        /\ year = 2019 /\ region = "BadenWuerttemberg" => Len(holidays) = 12
        /\ year = 2019 /\ region = "BayernKath" => Len(holidays) = 13
        /\ year = 2019 /\ region = "Berlin" => Len(holidays) = 10

\* C7 witness: the 13 holidays of BayernKath in 2019.
C7_Witness ==
    /\ pc = "holidays_in_year"
    /\ region = "BayernKath"
    /\ year = 2019
    /\ Len(holidays) = 13

\* The date looked up is March 8 of its year.
QueryIsMarch8 == query = from_ymd_opt(year_of(query[1]), 3, 8)

\* C8: Frauentag in Berlin starts in 2019: for y < 2019 holidays_in_year(Berlin,
\* y) has no Frauentag, is_holiday(Berlin, March 8 of y) is false and
\* holiday_from_date(Berlin, March 8 of y) is None; for y >= 2019 the list has
\* Frauentag, is_holiday is true and holiday_from_date is Frauentag.
C8_FrauentagInBerlinSince2019 ==
    /\ pc = "holidays_in_year" /\ region = "Berlin" =>
          (Contains(holidays, "Frauentag") <=> year >= 2019)
    /\ Looked /\ region = "Berlin" /\ QueryIsMarch8 =>
          found = IF year_of(query[1]) >= 2019 THEN Some("Frauentag") ELSE None
    /\ pc = "is_holiday" /\ region = "Berlin" /\ QueryIsMarch8 =>
          (is_hol <=> year_of(query[1]) >= 2019)

\* C8 witness: March 8 of 2019 was looked up in Berlin and is Frauentag.
C8_Witness ==
    /\ pc = "is_holiday"
    /\ region = "Berlin"
    /\ query = from_ymd_opt(2019, 3, 8)
    /\ found = Some("Frauentag")
    /\ is_hol

\* The date looked up is January 1 of its year.
QueryIsJanuary1 == query = Some(DaysBeforeYear(year_of(query[1])) + 1)

\* C9: for y >= 1995 the date of Neujahr is January 1 of y, and for every
\* region r is_holiday(r, January 1 of y) is true and holiday_from_date(r,
\* January 1 of y) is Neujahr.
C9_Neujahr ==
    /\ pc = "date" /\ kind = "Neujahr" /\ year >= FirstYear =>
          /\ result = Some(DaysBeforeYear(year) + 1)
          /\ year_of(result[1]) = year
          /\ year_of(result[1] - 1) = year - 1
    /\ Looked /\ QueryIsJanuary1 /\ year_of(query[1]) >= FirstYear =>
          found = Some("Neujahr")
    /\ pc = "is_holiday" /\ QueryIsJanuary1 /\ year_of(query[1]) >= FirstYear =>
          is_hol

\* C9 witness: 2018-01-01 was looked up in BayernKath and is Neujahr.
C9_Witness ==
    /\ pc = "is_holiday"
    /\ region = "BayernKath"
    /\ query = from_ymd_opt(2018, 1, 1)
    /\ found = Some("Neujahr")
    /\ is_hol

\* C10: for every kind k and year y >= 1995, GermanHoliday::date(k, y) is a
\* date of calendar year y; so holiday_dates_in_year(r, y) drops nothing and has
\* exactly one entry for each kind of holidays_in_year(r, y).
C10_DateNeverFails ==
    /\ pc = "date" /\ year >= FirstYear =>
          /\ result # None
          /\ year_of(result[1]) = year
    /\ pc = "holiday_dates_in_year" /\ year >= FirstYear =>
          /\ Len(holiday_dates) = Len(holidays_in_year(region, year))
          /\ \A k \in Range(holidays_in_year(region, year)) :
                Cardinality({i \in 1..Len(holiday_dates) :
                                holiday_dates[i][2] = k}) = 1

\* C10 witness: the date of Faschingsdienstag, the earliest Easter-relative
\* kind, in 2008, where Easter Sunday is as early as March 23.
C10_Witness ==
    /\ pc = "date"
    /\ kind = "Faschingsdienstag"
    /\ year = 2008
    /\ result = from_ymd_opt(2008, 2, 5)

\* The places of the list hs whose kind falls on the date looked up.
Matches(hs) ==
    {i \in 1..Len(hs) : holiday_date(hs[i], year_of(query[1])) = query}

\* The least element of a non-empty set of numbers.
Least(S) == CHOOSE i \in S : \A j \in S : i <= j

\* C11: holiday_from_date(r, d) returns the first kind, in the list order of
\* holidays_in_year(r, year(d)) (nationwide kinds first, then region-specific,
\* then the 2017 extra), whose date in year(d) is d, and None when there is no
\* such kind; a returned kind is observed by r in that year and falls on d; and
\* is_holiday(r, d) is true exactly when holiday_from_date(r, d) is not None.
C11_FirstMatchInListOrder ==
    Looked =>
        LET y  == year_of(query[1])
            hs == holidays_in_year(region, y)
            ms == Matches(hs)
        IN  /\ found = IF ms = {} THEN None ELSE Some(hs[Least(ms)])
            /\ found # None =>
                  /\ found[1] \in Expected(region, y)
                  /\ y >= FirstYear
                  /\ holiday_date(found[1], y) = query
            /\ \A i \in 1..Len(hs) : (i <= 9 <=> hs[i] \in Nationwide)
            /\ y = 2017 /\ "Reformationstag" \notin Table(region, y) =>
                  hs[Len(hs)] = "Reformationstag"
            /\ pc = "is_holiday" => (is_hol <=> found # None)

\* C11 witness: 2008-05-01 was looked up, the date of both ErsterMai and
\* ChristiHimmelfahrt, and ErsterMai, the earlier in the list, came back.
C11_Witness ==
    /\ pc = "is_holiday"
    /\ holiday_dates = << >>
    /\ query = from_ymd_opt(2008, 5, 1)
    /\ holiday_date("ChristiHimmelfahrt", 2008) = query
    /\ found = Some("ErsterMai")
    /\ is_hol

====
